---- MODULE Spec2Model ----
(***************************************************************************)
(* Model of the availability matching engine of recgov_daemon              *)
(* (src/availability.py): consecutive, find_sites, index_by_date, the      *)
(* criteria MinimumStayLength, MaximumStayLength and Stay, and search.     *)
(*                                                                         *)
(* A date is its day number (an integer, day 1 being a Monday); a Python   *)
(* list is a sequence; a Python set object is the sequence of its elements *)
(* in the order the object iterates them, which is an arbitrary            *)
(* permutation fixed when the object is built.                             *)
(***************************************************************************)
EXTENDS Integers, Sequences, FiniteSets

VARIABLES
    pc,            \* the call made last
    availability,  \* site id -> the set of dates the site is open
    dates,         \* the list (or set object) argument of the call
    num,           \* the num_sites argument of find_sites
    criteria,      \* the criterion instance, with its accumulators
    sets,          \* the set objects search built, one per range
    cycles,        \* searches made on the criterion instance
    ret,           \* the value the call returned
    args,          \* the scalar arguments of the call
    outcomes,      \* how each send attempt of email_notification ended
    held           \* the result the caller kept from the search before

vars == <<pc, availability, dates, num, criteria, sets, cycles, ret,
          args, outcomes, held>>

(* ------------------------------ bounds --------------------------------- *)
\* Days 1..MaxDay are the calendar of the pure-function specifications.
MaxDay == 5

\* Days 1..TestDays are the calendar of the MinimumStayLength.test
\* specification: more than a week, so that a week day can occur twice in a run.
TestDays == 8

\* Days 1..FindDays are the calendar of the find_sites specification.
FindDays == 3

\* Days 1..SearchDays are the calendar of the single-search specification.
SearchDays == 4

\* Days 1..CycleDays are the calendar of the polling-cycle specification.
CycleDays == 3

\* Searches made on one criterion instance in the polling-cycle specification.
MaxCycles == 2

\* Largest nights parameter of a MinimumStayLength in the test specification.
MaxNights == 3

\* Largest nights parameter of a MinimumStayLength in the search specifications.
SearchNights == 2

Days == 1..MaxDay

\* Site identifiers as the tests use them.
Sites == {"001", "002"}

\* Site thresholds: 0 (site identity does not matter) up to one more than
\* the number of sites, so that an unsatisfiable threshold occurs.
SiteCounts == 0..(Cardinality(Sites) + 1)

(* ------------------------------ values --------------------------------- *)
\* Python's None where a date is expected (first_night = None, previous = None).
NoDate == 0

\* first_week_day's default.
NoWeekDay == -1

\* date.weekday(): Monday is 0, Sunday is 6.
weekday(d) == (d - 1) % 7

WeekDays == 0..6

SetOf(s) == {s[i] : i \in DOMAIN s}

\* Every list holding each element of the set S once.
RECURSIVE Orderings(_)
Orderings(S) ==
    IF S = {} THEN {<<>>}
    ELSE UNION {{<<x>> \o p : p \in Orderings(S \ {x})} : x \in S}

\* Every list of distinct dates taken from the set S.
ListsOver(S) == UNION {Orderings(T) : T \in SUBSET S}

\* list[a:b] for 0 <= a, with b clipped to the length as Python clips it.
Slice(s, a, b) == SubSeq(s, a + 1, IF b > Len(s) THEN Len(s) ELSE b)

RECURSIVE Insert(_, _)
Insert(s, x) ==
    IF s = <<>> THEN <<x>>
    ELSE IF x < Head(s) THEN <<x>> \o s
    ELSE <<Head(s)>> \o Insert(Tail(s), x)

\* sorted(list(dates)) and dates.sort(): ascending order.
RECURSIVE sorted(_)
sorted(s) == IF s = <<>> THEN <<>> ELSE Insert(sorted(Tail(s)), Head(s))

\* The elements of a set of days as a list, latest first.
RECURSIVE Descending(_)
Descending(S) ==
    IF S = {} THEN <<>>
    ELSE LET m == CHOOSE x \in S : \A y \in S : y <= x
         IN  <<m>> \o Descending(S \ {m})

\* The set objects set(...) can build from the days S, told apart by the order
\* in which they iterate. The order depends on the hashes of the dates and is
\* any permutation; three of them are followed: ascending, descending, and
\* ascending from the second day round to the first.
SetObjects(S) ==
    LET up == sorted(Descending(S))
        n == Len(up)
    IN  {up, [i \in 1..n |-> up[n + 1 - i]], [i \in 1..n |-> up[(i % n) + 1]]}

RECURSIVE Flatten(_)
Flatten(ss) == IF ss = <<>> THEN <<>> ELSE Head(ss) \o Flatten(Tail(ss))

(* ---------------------------- consecutive ------------------------------ *)
\* Variant: a gap of two days still counted as consecutive.
NotConsecutiveOffByOne(span) == span > 2

\* span.days > 1
NotConsecutive(span) == span > 1

\* The loop of consecutive over the sorted list, from position i on; st holds
\* the locals previous, start, end, current and runs.
RECURSIVE ConsecutiveLoop(_, _, _)
ConsecutiveLoop(ds, i, st) ==
    IF i > Len(ds) THEN Append(st.runs, <<st.start, st.end + 1>>)
    ELSE IF st.previous = NoDate
    THEN ConsecutiveLoop(ds, i + 1,
             [st EXCEPT !.previous = ds[i], !.current = @ + 1])
    ELSE IF NotConsecutive(ds[i] - st.previous)
    THEN ConsecutiveLoop(ds, i + 1,
             [st EXCEPT !.previous = ds[i],
                        !.runs = Append(@, <<st.start, st.end + 1>>),
                        !.start = st.current,
                        !.current = @ + 1])
    ELSE ConsecutiveLoop(ds, i + 1,
             [st EXCEPT !.previous = ds[i],
                        !.end = st.current,
                        !.current = @ + 1])

\* consecutive(dates), given the list already sorted in place: the list of
\* (start, end) index pairs, each meant as the slice dates[start:end].
consecutive(ds) ==
    ConsecutiveLoop(ds, 1,
        [previous |-> NoDate, start |-> 0, end |-> 0, current |-> 0, runs |-> <<>>])

\* The dates of the range r of the sorted list ds: ds[start:end].
RangeDates(ds, r) == Slice(ds, r[1], r[2])

(* ----------------------- index_by_date, find_sites --------------------- *)
\* index_by_date(availability): date -> the sites open that date, for the
\* dates some site is open. Each site is appended once per date, so the list
\* of a date is read here as the set find_sites makes of it.
index_by_date(av) ==
    [d \in UNION {av[s] : s \in DOMAIN av} |-> {s \in DOMAIN av : d \in av[s]}]

\* list(available_dates.keys()) followed by dates.sort(); the keys are taken
\* latest first here, an order the sort has to undo.
SortedKeys(index) == sorted(Descending(DOMAIN index))

\* Variant: each date counted on its own, no running intersection.
PerDateCountOnly(sites, sites_available) == sites_available

\* sites.intersection_update(sites_available)
intersection_update(sites, sites_available) == sites \cap sites_available

\* The loop of find_sites from position i on; sites is the running
\* intersection (unused at i = 1, where the code holds None).
RECURSIVE FindSitesLoop(_, _, _, _, _)
FindSitesLoop(ds, i, sites, index, num_sites) ==
    IF i > Len(ds) THEN TRUE
    ELSE LET sites_available == index[ds[i]]
             now == IF i = 1 THEN sites_available
                    ELSE intersection_update(sites, sites_available)
         IN  IF Cardinality(now) < num_sites THEN FALSE
             ELSE FindSitesLoop(ds, i + 1, now, index, num_sites)

\* find_sites(dates, availability, num_sites), for a call that returns.
find_sites(ds, index, num_sites) == FindSitesLoop(ds, 1, {}, index, num_sites)

\* The same loop, for whether the call raises instead of returning:
\* availability[d] raises KeyError at a date the index does not hold, if the
\* loop gets to it before it returns False.
RECURSIVE FindSitesRaisesLoop(_, _, _, _, _)
FindSitesRaisesLoop(ds, i, sites, index, num_sites) ==
    IF i > Len(ds) THEN FALSE
    ELSE IF ds[i] \notin DOMAIN index THEN TRUE
    ELSE LET sites_available == index[ds[i]]
             now == IF i = 1 THEN sites_available
                    ELSE intersection_update(sites, sites_available)
         IN  IF Cardinality(now) < num_sites THEN FALSE
             ELSE FindSitesRaisesLoop(ds, i + 1, now, index, num_sites)

find_sites_raises(ds, index, num_sites) ==
    FindSitesRaisesLoop(ds, 1, {}, index, num_sites)

\* The sites open on every one of the dates.
CommonSites(ds, index) ==
    {s \in Sites : \A d \in SetOf(ds) : s \in index[d]}

(* ------------------------------ criteria ------------------------------- *)
\* What a call comes back with: a sequence of dates, None, the TypeError a
\* list raises when it is extended with None, or the KeyError of find_sites.
Dates(v) == [kind |-> "dates", v |-> v]
None == [kind |-> "None", v |-> <<>>]
TypeError == [kind |-> "TypeError", v |-> <<>>]
KeyError == [kind |-> "KeyError", v |-> <<>>]
ValueError == [kind |-> "ValueError", v |-> <<>>]

\* Variant: the week day read as a truth value, so that Monday (0) passes.
BothGivenTruthy(first_night, first_week_day) ==
    first_night # NoDate /\ first_week_day > 0

\* first_night and first_week_day != -1
BothGiven(first_night, first_week_day) ==
    first_night # NoDate /\ first_week_day # NoWeekDay

\* MinimumStayLength(nights, num_sites, first_night, first_week_day): the
\* constructor refuses first_night together with first_week_day.
MinimumStayLength(nights, num_sites, first_night, first_week_day) ==
    IF BothGiven(first_night, first_week_day) THEN ValueError
    ELSE [kind |-> "MinimumStayLength", nights |-> nights,
          num_sites |-> num_sites, first_night |-> first_night,
          first_week_day |-> first_week_day, matches |-> <<>>]

\* MaximumStayLength(num_sites)
MaximumStayLength(num_sites) ==
    [kind |-> "MaximumStayLength", num_sites |-> num_sites,
     max_nights |-> -1, max_dates |-> <<>>]

\* Stay(*criteria)
Stay(children) == [kind |-> "Stay", criteria |-> children]

\* ordered.index(x): the 0-based position of x in the list.
IndexOf(ordered, x) == (CHOOSE i \in DOMAIN ordered : ordered[i] = x) - 1

\* The for loop of MinimumStayLength.test: the number of dates of the sorted
\* list before the first one on week day w (the length if there is none).
RECURSIVE FirstWeekDayIndex(_, _)
FirstWeekDayIndex(ordered, w) ==
    IF ordered = <<>> \/ weekday(Head(ordered)) = w THEN 0
    ELSE 1 + FirstWeekDayIndex(Tail(ordered), w)

\* Variant: the span recorded whatever its length.
AppendAlways(c, span) == [c EXCEPT !.matches = Append(@, span)]

\* if len(dates) >= self._nights: self._matches.append(dates)
AppendIfLongEnough(c, span) ==
    IF Len(span) >= c.nights THEN [c EXCEPT !.matches = Append(@, span)] ELSE c

\* Variant: the run from the week day on, not cut to a window.
WholeRunFromWeekDay(ordered, first_index, nights) ==
    Slice(ordered, first_index, Len(ordered))

\* ordered[first_index:first_index + self._nights]
WeekDayWindow(ordered, first_index, nights) ==
    Slice(ordered, first_index, first_index + nights)

\* Variant: the run from the first night on cut to a window of nights dates.
FirstNightWindowOfNights(ordered, first_index, nights) ==
    Slice(ordered, first_index, first_index + nights)

\* ordered[first_index:]
FirstNightSuffix(ordered, first_index, nights) ==
    Slice(ordered, first_index, Len(ordered))

\* MinimumStayLength.test(site_id, dates), dates being a set object.
MinimumStayLength_test(c, ds) ==
    IF c.first_night # NoDate
    THEN IF c.first_night \notin SetOf(ds) THEN c
         ELSE LET ordered == sorted(ds)
                  first_index == IndexOf(ordered, c.first_night)
              IN  AppendIfLongEnough(c,
                      FirstNightSuffix(ordered, first_index, c.nights))
    ELSE IF c.first_week_day # NoWeekDay
    THEN LET ordered == sorted(ds)
             first_index == FirstWeekDayIndex(ordered, c.first_week_day)
             found == first_index < Len(ordered)
         IN  IF found
             THEN AppendIfLongEnough(c,
                      WeekDayWindow(ordered, first_index, c.nights))
             ELSE c
    ELSE AppendIfLongEnough(c, ds)

\* Variant: no site check on a span.
KeepEverySpan(span, index, num_sites) == TRUE

\* MinimumStayLength.matches: whether a span goes into the results.
SpanQualifies(span, index, num_sites) ==
    num_sites = 0 \/ find_sites(span, index, num_sites)

\* The two for loops of MinimumStayLength.matches, from span i on.
RECURSIVE MinimumStayLength_matchesLoop(_, _, _, _)
MinimumStayLength_matchesLoop(c, index, i, results) ==
    IF i > Len(c.matches) THEN Dates(results)
    ELSE IF c.num_sites # 0 /\ find_sites_raises(c.matches[i], index, c.num_sites)
    THEN KeyError
    ELSE MinimumStayLength_matchesLoop(c, index, i + 1,
             IF SpanQualifies(c.matches[i], index, c.num_sites)
             THEN results \o c.matches[i]
             ELSE results)

MinimumStayLength_matches(c, index) ==
    MinimumStayLength_matchesLoop(c, index, 1, <<>>)

\* MinimumStayLength.reset: self._matches.clear()
MinimumStayLength_reset(c) == [c EXCEPT !.matches = <<>>]

\* Variant: a later run of the same length replaces the champion.
LongerOrEqual(n, max_nights) == n >= max_nights

\* len(dates) > self._max_nights
Longer(n, max_nights) == n > max_nights

\* MaximumStayLength.test(site_id, dates)
MaximumStayLength_test(c, ds) ==
    IF Longer(Len(ds), c.max_nights)
    THEN [c EXCEPT !.max_nights = Len(ds), !.max_dates = ds]
    ELSE c

\* Variant: every qualifying end piece replaces the one kept.
AnyStay(n, count) == TRUE

\* len(dates) > num_max_stays_for_sites
IsLongerStay(n, count) == n > count

\* The for loop of MaximumStayLength.matches over i in range(1, len(max_dates)),
\* from i on; best is max_stays_for_sites, count is num_max_stays_for_sites.
RECURSIVE MaximumStayLength_matchesLoop(_, _, _, _, _, _)
MaximumStayLength_matchesLoop(max_dates, index, num_sites, i, count, best) ==
    IF i >= Len(max_dates) THEN best
    ELSE LET ds == Slice(max_dates, i, Len(max_dates)) IN
         IF find_sites_raises(ds, index, num_sites) THEN KeyError
         ELSE IF find_sites(ds, index, num_sites) /\ IsLongerStay(Len(ds), count)
         THEN MaximumStayLength_matchesLoop(max_dates, index, num_sites, i + 1,
                  Len(ds), Dates(ds))
         ELSE MaximumStayLength_matchesLoop(max_dates, index, num_sites, i + 1,
                  count, best)

\* MaximumStayLength.matches
MaximumStayLength_matches(c, index) ==
    IF c.num_sites = 0 \/ Len(c.max_dates) = 0 THEN Dates(c.max_dates)
    ELSE LET max_dates == sorted(c.max_dates) IN
         IF find_sites_raises(max_dates, index, c.num_sites) THEN KeyError
         ELSE IF find_sites(max_dates, index, c.num_sites) THEN Dates(max_dates)
         ELSE MaximumStayLength_matchesLoop(max_dates, index, c.num_sites,
                  1, -1, None)

\* MaximumStayLength.reset
MaximumStayLength_reset(c) == [c EXCEPT !.max_nights = -1, !.max_dates = <<>>]

(* ---------- the date criteria of src/test_availability_api.py ---------- *)
\* ExactDateSearch(*dates): the desired dates as a set object and an empty
\* list of matches.
ExactDateSearch(desired) ==
    [kind |-> "ExactDateSearch", desired_dates |-> desired, matches |-> <<>>]

\* dates.intersection(self._desired_dates): a new set object, taken in the
\* order dates iterates; nothing stated below depends on its order.
intersection(ds, desired) ==
    SelectSeq(ds, LAMBDA d : d \in SetOf(desired))

\* ExactDateSearch.test
ExactDateSearch_test(c, ds) ==
    LET found == intersection(ds, c.desired_dates)
    IN  IF Len(found) > 0 THEN [c EXCEPT !.matches = @ \o found] ELSE c

\* ExactDateSearch.matches
ExactDateSearch_matches(c, index) == Dates(c.matches)

\* ConsecutiveDateSearch(*dates, num_sites): the dates as a set object, an
\* empty list of matches and the threshold.
ConsecutiveDateSearch(ds, num_sites) ==
    [kind |-> "ConsecutiveDateSearch", dates |-> ds, num_sites |-> num_sites,
     matches |-> <<>>]

\* self._dates.issubset(dates)
issubset(targets, ds) == SetOf(targets) \subseteq SetOf(ds)

\* ConsecutiveDateSearch.test
ConsecutiveDateSearch_test(c, ds) ==
    IF issubset(c.dates, ds) THEN [c EXCEPT !.matches = @ \o c.dates] ELSE c

\* ConsecutiveDateSearch.matches
ConsecutiveDateSearch_matches(c, index) ==
    IF c.num_sites = 0 \/ Len(c.matches) = 0 THEN Dates(c.matches)
    ELSE IF find_sites_raises(c.matches, index, c.num_sites) THEN KeyError
    ELSE IF find_sites(c.matches, index, c.num_sites) THEN Dates(c.matches)
    ELSE Dates(<<>>)

\* criteria.test(site_id, dates) on any criterion; Stay.test passes the call
\* to every child.
RECURSIVE test(_, _)
test(c, ds) ==
    IF c.kind = "MinimumStayLength" THEN MinimumStayLength_test(c, ds)
    ELSE IF c.kind = "MaximumStayLength" THEN MaximumStayLength_test(c, ds)
    ELSE IF c.kind = "ExactDateSearch" THEN ExactDateSearch_test(c, ds)
    ELSE IF c.kind = "ConsecutiveDateSearch" THEN ConsecutiveDateSearch_test(c, ds)
    ELSE [c EXCEPT !.criteria = [i \in DOMAIN c.criteria |-> test(c.criteria[i], ds)]]

\* result.extend(x) on a list result, x being what a child's matches came
\* back with: an exception of the child goes on up.
extend(result, x) ==
    IF result.kind # "dates" THEN result
    ELSE IF x.kind = "dates" THEN Dates(result.v \o x.v)
    ELSE IF x.kind = "None" THEN TypeError
    ELSE x

\* criteria.matches(site_availability); Stay.matches extends one list with
\* each child's matches in turn.
RECURSIVE matches(_, _)
RECURSIVE Stay_matchesLoop(_, _, _, _)
Stay_matchesLoop(c, index, i, result) ==
    IF i > Len(c.criteria) \/ result.kind # "dates" THEN result
    ELSE Stay_matchesLoop(c, index, i + 1,
             extend(result, matches(c.criteria[i], index)))

matches(c, index) ==
    IF c.kind = "MinimumStayLength" THEN MinimumStayLength_matches(c, index)
    ELSE IF c.kind = "MaximumStayLength" THEN MaximumStayLength_matches(c, index)
    ELSE IF c.kind = "ExactDateSearch" THEN ExactDateSearch_matches(c, index)
    ELSE IF c.kind = "ConsecutiveDateSearch"
    THEN ConsecutiveDateSearch_matches(c, index)
    ELSE Stay_matchesLoop(c, index, 1, Dates(<<>>))

\* Variant: accumulators kept from one search to the next.
NoReset(c) == c

\* criteria.reset(); Stay.reset passes the call to every child. The date
\* criteria of the test file have no reset and its search makes no such call.
RECURSIVE reset(_)
reset(c) ==
    IF c.kind = "MinimumStayLength" THEN MinimumStayLength_reset(c)
    ELSE IF c.kind = "MaximumStayLength" THEN MaximumStayLength_reset(c)
    ELSE IF c.kind \in {"ExactDateSearch", "ConsecutiveDateSearch"} THEN c
    ELSE [c EXCEPT !.criteria = [i \in DOMAIN c.criteria |-> reset(c.criteria[i])]]

(* ------------------------------- search -------------------------------- *)
\* The set objects set(dates[start:end]) can be, one per range of spans.
RECURSIVE SpanSets(_, _)
SpanSets(ds, spans) ==
    IF spans = <<>> THEN {<<>>}
    ELSE {<<o>> \o rest : o \in SetObjects(SetOf(RangeDates(ds, Head(spans)))),
                           rest \in SpanSets(ds, Tail(spans))}

\* for start, end in spans: criteria.test("dummy", set(dates[start:end]))
RECURSIVE TestAll(_, _)
TestAll(c, objs) ==
    IF objs = <<>> THEN c ELSE TestAll(test(c, Head(objs)), Tail(objs))

\* search(availability, criteria) on the criterion instance, for one of the
\* payloads avs: reset, index, sort, partition, test every range, matches.
search(avs) ==
    \E av \in avs :
        LET available_dates == index_by_date(av)
            ds == SortedKeys(available_dates)
            spans == consecutive(ds)
        IN  \E objs \in SpanSets(ds, spans) :
                /\ availability' = av
                /\ dates' = ds
                /\ sets' = objs
                /\ criteria' = TestAll(reset(criteria), objs)
                /\ ret' = matches(criteria', available_dates)
                /\ cycles' = cycles + 1
                /\ pc' = "search"
                /\ UNCHANGED <<num, args, outcomes>>

(* ---------------------- specification: consecutive --------------------- *)
NoCriteria == [kind |-> "none"]
NoAvailability == [s \in Sites |-> {}]
NoRet == [kind |-> "none", v |-> <<>>]

\* No arguments of a call yet.
NoArgs == [kind |-> "none"]

\* The caller holds no earlier result.
NoHeld == [returned |-> NoRet, now |-> NoRet]

InitConsecutive ==
    /\ pc = "call"
    /\ dates \in ListsOver(Days)
    /\ availability = NoAvailability
    /\ num = 0
    /\ criteria = NoCriteria
    /\ sets = <<>>
    /\ cycles = 0
    /\ ret = NoRet
    /\ args = NoArgs
    /\ outcomes = <<>>
    /\ held = NoHeld

\* runs = consecutive(dates): sorts dates in place and returns the ranges.
CallConsecutive ==
    /\ pc = "call"
    /\ pc' = "consecutive"
    /\ dates' = sorted(dates)
    /\ ret' = [kind |-> "runs", v |-> consecutive(sorted(dates))]
    /\ UNCHANGED <<availability, num, criteria, sets, cycles, args, outcomes, held>>

NextConsecutive == CallConsecutive

SpecConsecutive == InitConsecutive /\ [][NextConsecutive]_vars

\* C1: the ranges returned by consecutive(dates) cover the sorted date list
\* exactly once: no range is empty and every position of the sorted list lies
\* in exactly one range (single-date runs included).
C1_RangesPartition ==
    pc = "consecutive" =>
        /\ \A k \in DOMAIN ret.v : ret.v[k][1] < ret.v[k][2]
        /\ \A i \in 0..(Len(dates) - 1) :
               Cardinality({k \in DOMAIN ret.v :
                               ret.v[k][1] <= i /\ i < ret.v[k][2]}) = 1

\* C2: every returned range is gap-free inside (neighbouring dates one day
\* apart) and no later range starts the day after an earlier range ends.
C2_RunsGapFreeAndMaximal ==
    pc = "consecutive" =>
        /\ \A k \in DOMAIN ret.v :
               LET r == RangeDates(dates, ret.v[k]) IN
               \A i \in 1..(Len(r) - 1) : r[i + 1] - r[i] = 1
        /\ \A k \in DOMAIN ret.v : \A l \in DOMAIN ret.v :
               LET a == RangeDates(dates, ret.v[k])
                   b == RangeDates(dates, ret.v[l]) IN
               (k < l /\ a # <<>> /\ b # <<>>) => b[1] - a[Len(a)] # 1

\* A call that returned two non-empty ranges, the first of several dates.
C2_Witness ==
    /\ pc = "consecutive"
    /\ Len(ret.v) >= 2
    /\ Len(RangeDates(dates, ret.v[1])) >= 2
    /\ Len(RangeDates(dates, ret.v[2])) >= 2

(* ---------------------- specification: find_sites ---------------------- *)
\* Every payload over the days 1..n: each site with the set of its open days.
Availabilities(n) == [Sites -> SUBSET (1..n)]

InitFindSites ==
    /\ pc = "call"
    /\ availability \in Availabilities(FindDays)
    /\ dates \in ListsOver(DOMAIN index_by_date(availability))
    /\ num \in SiteCounts
    /\ criteria = NoCriteria
    /\ sets = <<>>
    /\ cycles = 0
    /\ ret = NoRet
    /\ args = NoArgs
    /\ outcomes = <<>>
    /\ held = NoHeld

CallFindSites ==
    /\ pc = "call"
    /\ pc' = "find_sites"
    /\ ret' = IF find_sites_raises(dates, index_by_date(availability), num)
              THEN KeyError
              ELSE [kind |-> "bool",
                    v |-> find_sites(dates, index_by_date(availability), num)]
    /\ UNCHANGED <<availability, dates, num, criteria, sets, cycles, args, outcomes, held>>

NextFindSites == CallFindSites

SpecFindSites == InitFindSites /\ [][NextFindSites]_vars

\* C4: find_sites(dates, index, k) is true exactly when at least k sites are
\* open on every one of the dates (with no date at all, every site is), and
\* the answer is the same whatever the order of the dates.
C4_FindSitesIsIntersection ==
    pc = "find_sites" =>
        LET index == index_by_date(availability) IN
        /\ ret.kind = "bool"
        /\ ret.v = (dates = <<>> \/ Cardinality(CommonSites(dates, index)) >= num)
        /\ \A p \in Orderings(SetOf(dates)) : find_sites(p, index, num) = ret.v

\* Two dates with enough sites each (num of them) but fewer in common.
C4_Witness ==
    /\ pc = "find_sites"
    /\ Len(dates) >= 2
    /\ num >= 1
    /\ \A d \in SetOf(dates) : Cardinality(index_by_date(availability)[d]) >= num
    /\ ret.v = FALSE

(* --------------- specification: MinimumStayLength.test ------------------ *)
\* The set objects of the runs of the calendar 1..n: every non-empty interval
\* of days.
RunObjects(n) ==
    UNION {SetObjects(a..b) : <<a, b>> \in {x \in (1..n) \X (1..n) : x[1] <= x[2]}}

\* The MinimumStayLength criteria over the calendar 1..n that the constructor
\* accepts: no restriction, a first night, or a first week day.
MinimumStayLengths(n, counts, maxnights, weekdays) ==
    {MinimumStayLength(nights, num_sites, first_night, first_week_day) :
        nights \in 0..maxnights, num_sites \in counts,
        first_night \in {NoDate}, first_week_day \in {NoWeekDay} \cup weekdays}
    \cup
    {MinimumStayLength(nights, num_sites, first_night, NoWeekDay) :
        nights \in 0..maxnights, num_sites \in counts, first_night \in 1..n}

\* The week days of the calendar 1..n, and Sunday.
WeekDaysOf(n) == {weekday(d) : d \in 1..n} \cup {6}

InitTest ==
    /\ pc = "new"
    /\ criteria \in MinimumStayLengths(TestDays, {0, 1}, MaxNights, WeekDays)
    /\ availability = NoAvailability
    /\ dates = <<>>
    /\ num = 0
    /\ sets = <<>>
    /\ cycles = 0
    /\ ret = NoRet
    /\ args = NoArgs
    /\ outcomes = <<>>
    /\ held = NoHeld

\* criteria.test("dummy", dates) on the new criterion, dates being a run.
CallTest ==
    /\ pc = "new"
    /\ pc' = "test"
    /\ \E run \in RunObjects(TestDays) :
           /\ dates' = run
           /\ criteria' = test(criteria, run)
    /\ ret' = [kind |-> "bool", v |-> TRUE]
    /\ UNCHANGED <<availability, num, sets, cycles, args, outcomes, held>>

NextTest == CallTest

SpecTest == InitTest /\ [][NextTest]_vars

\* The dates of the run from day d to the run's end, in date order.
RunFrom(run, d) == sorted(SelectSeq(run, LAMBDA x : x >= d))

\* The first date of the run on week day w (the run has one).
FirstOnWeekDay(run, w) ==
    CHOOSE d \in SetOf(run) :
        /\ weekday(d) = w
        /\ \A e \in SetOf(run) : weekday(e) = w => d <= e

Min2(a, b) == IF a < b THEN a ELSE b

TestedWeekDay ==
    /\ pc = "test"
    /\ criteria.first_week_day # NoWeekDay

\* C5 as stated: with firstWeekDay = w, a run holding a date on week day w
\* gets one span recorded, of length min(n, dates left from the first such
\* date) and starting at that date; a run without such a date gets none.
C5_WeekDaySpanTruncated ==
    TestedWeekDay =>
        LET w == criteria.first_week_day IN
        IF \E d \in SetOf(dates) : weekday(d) = w
        THEN LET left == RunFrom(dates, FirstOnWeekDay(dates, w)) IN
             /\ Len(criteria.matches) = 1
             /\ criteria.matches[1] = SubSeq(left, 1, Min2(criteria.nights, Len(left)))
        ELSE criteria.matches = <<>>

\* C5, amended: with firstWeekDay = w, a run holding a date on week day w
\* gets the n dates starting at the first such date recorded as one span when
\* at least n dates of the run are left from that date, and nothing when
\* fewer are left; a run without such a date gets nothing recorded.
C5_WeekDaySpanOnlyIfLongEnough ==
    TestedWeekDay =>
        LET w == criteria.first_week_day IN
        IF \E d \in SetOf(dates) : weekday(d) = w
        THEN LET left == RunFrom(dates, FirstOnWeekDay(dates, w)) IN
             IF Len(left) >= criteria.nights
             THEN criteria.matches = <<SubSeq(left, 1, criteria.nights)>>
             ELSE criteria.matches = <<>>
        ELSE criteria.matches = <<>>

\* A run with two dates on the week day, more dates left than nights, and
\* the window recorded.
C5_Witness ==
    /\ TestedWeekDay
    /\ Cardinality({d \in SetOf(dates) : weekday(d) = criteria.first_week_day}) = 2
    /\ criteria.nights >= 2
    /\ Len(RunFrom(dates, FirstOnWeekDay(dates, criteria.first_week_day)))
           > criteria.nights
    /\ Len(criteria.matches) = 1

TestedUnrestricted ==
    /\ pc = "test"
    /\ criteria.first_week_day = NoWeekDay
    /\ criteria.first_night = NoDate

\* C6: with neither firstNight nor firstWeekDay, a run of length L gets a span
\* recorded exactly when L >= n, and the span is the whole run.
C6_UnrestrictedRecordsWholeRun ==
    TestedUnrestricted =>
        IF Len(dates) >= criteria.nights
        THEN criteria.matches = <<dates>>
        ELSE criteria.matches = <<>>

\* A run longer than the nights asked for, recorded whole.
C6_Witness ==
    /\ TestedUnrestricted
    /\ criteria.nights >= 2
    /\ Len(dates) > criteria.nights
    /\ criteria.matches = <<dates>>

TestedFirstNight ==
    /\ pc = "test"
    /\ criteria.first_night # NoDate

\* C7: with firstNight = f, a run without f gets nothing recorded; a run with
\* f gets its dates from f to its end recorded, all of them, exactly when
\* they are at least n.
C7_FirstNightRecordsSuffix ==
    TestedFirstNight =>
        IF criteria.first_night \in SetOf(dates)
        THEN LET suffix == RunFrom(dates, criteria.first_night) IN
             IF Len(suffix) >= criteria.nights
             THEN criteria.matches = <<suffix>>
             ELSE criteria.matches = <<>>
        ELSE criteria.matches = <<>>

\* A run holding the first night inside it, with more dates from there on
\* than nights, recorded without being cut down.
C7_Witness ==
    /\ TestedFirstNight
    /\ criteria.first_night \in SetOf(dates)
    /\ \E d \in SetOf(dates) : d < criteria.first_night
    /\ criteria.nights >= 1
    /\ Len(criteria.matches) = 1
    /\ Len(criteria.matches[1]) > criteria.nights

(* ------------- specification: one search, MinimumStayLength ------------- *)
InitSearchMin ==
    /\ pc = "new"
    /\ criteria \in MinimumStayLengths(SearchDays, SiteCounts, SearchNights, WeekDaysOf(SearchDays))
    /\ availability = NoAvailability
    /\ dates = <<>>
    /\ num = 0
    /\ sets = <<>>
    /\ cycles = 0
    /\ ret = NoRet
    /\ args = NoArgs
    /\ outcomes = <<>>
    /\ held = NoHeld

SearchMin ==
    /\ pc = "new"
    /\ search(Availabilities(SearchDays))
    /\ UNCHANGED held

NextSearchMin == SearchMin

SpecSearchMin == InitSearchMin /\ [][NextSearchMin]_vars

\* The accumulated spans that go into the result: all of them when num_sites
\* is 0, else those find_sites succeeds on.
Survivors(c, index) ==
    SelectSeq(c.matches,
              LAMBDA span :
                  \/ c.num_sites = 0
                  \/ /\ SetOf(span) \subseteq DOMAIN index
                     /\ find_sites(span, index, c.num_sites))

RECURSIVE SortEach(_)
SortEach(ss) ==
    IF ss = <<>> THEN <<>> ELSE <<sorted(Head(ss))>> \o SortEach(Tail(ss))

\* C8 as stated: matches returns the surviving spans one after the other in
\* run order, each span's dates in date order.
C8_MatchesInDateOrder ==
    pc = "search" =>
        ret = Dates(Flatten(SortEach(Survivors(criteria, index_by_date(availability)))))

\* C8, amended: matches returns the surviving spans (all spans when numSites
\* is 0, else those find_sites succeeds on) one after the other in run order,
\* each span's dates in the order the span iterates them: date order for a
\* span cut by firstNight or firstWeekDay, and the iteration order of the
\* run's set object, whatever it is, for a span recorded without restriction.
C8_MatchesInSpanOrder ==
    pc = "search" =>
        /\ ret = Dates(Flatten(Survivors(criteria, index_by_date(availability))))
        /\ \A i \in DOMAIN criteria.matches :
               IF criteria.first_night = NoDate /\ criteria.first_week_day = NoWeekDay
               THEN criteria.matches[i] \in SetOf(sets)
               ELSE criteria.matches[i] = sorted(criteria.matches[i])

\* Two spans accumulated, the first kept and the second, of two dates with no
\* site in common, dropped by the site check.
C8_Witness ==
    /\ pc = "search"
    /\ criteria.num_sites > 0
    /\ Len(criteria.matches) = 2
    /\ Len(criteria.matches[2]) >= 2
    /\ ret.v = criteria.matches[1]
    /\ ret.v # <<>>

(* ------------- specification: one search, MaximumStayLength ------------- *)
InitSearchMax ==
    /\ pc = "new"
    /\ criteria \in {MaximumStayLength(num_sites) : num_sites \in SiteCounts}
    /\ availability = NoAvailability
    /\ dates = <<>>
    /\ num = 0
    /\ sets = <<>>
    /\ cycles = 0
    /\ ret = NoRet
    /\ args = NoArgs
    /\ outcomes = <<>>
    /\ held = NoHeld

SearchMax ==
    /\ pc = "new"
    /\ search(Availabilities(MaxDay))
    /\ UNCHANGED held

NextSearchMax == SearchMax

SpecSearchMax == InitSearchMax /\ [][NextSearchMax]_vars

\* The runs of a set of days: its maximal intervals, as <<first, last>>.
RunsOf(S) ==
    {r \in S \X S :
        /\ r[1] <= r[2]
        /\ \A d \in r[1]..r[2] : d \in S
        /\ (r[1] - 1) \notin S
        /\ (r[2] + 1) \notin S}

RunLength(r) == r[2] - r[1] + 1

\* C9: after a search over an availability that has runs, the champion is a
\* longest run and, among the longest, the earliest; with numSites = 0
\* matches returns that run's dates, each once.
C9_ChampionIsEarliestLongestRun ==
    (pc = "search" /\ dates # <<>>) =>
        LET runs == RunsOf(SetOf(dates))
            best == CHOOSE r \in runs :
                        \A q \in runs :
                            \/ RunLength(q) < RunLength(r)
                            \/ (RunLength(q) = RunLength(r) /\ r[1] <= q[1])
        IN  /\ SetOf(criteria.max_dates) = best[1]..best[2]
            /\ Len(criteria.max_dates) = RunLength(best)
            /\ criteria.max_nights = RunLength(best)
            /\ criteria.num_sites = 0 =>
                   /\ ret.kind = "dates"
                   /\ SetOf(ret.v) = best[1]..best[2]
                   /\ Len(ret.v) = RunLength(best)

\* Two runs of the same greatest length, of two dates each, and no site
\* threshold: the earlier one is returned.
C9_Witness ==
    /\ pc = "search"
    /\ criteria.num_sites = 0
    /\ \E r \in RunsOf(SetOf(dates)) : \E q \in RunsOf(SetOf(dates)) :
           /\ r[1] < q[1]
           /\ RunLength(r) = 2
           /\ RunLength(q) = 2
           /\ SetOf(ret.v) = r[1]..r[2]

\* Whether at least k sites are open on every date of the list.
EnoughCommonSites(ds, k) ==
    Cardinality(CommonSites(ds, index_by_date(availability))) >= k

SearchedWithSites ==
    /\ pc = "search"
    /\ criteria.num_sites > 0
    /\ criteria.max_dates # <<>>

\* The champion in date order with its first i dates trimmed.
Trimmed(i) == LET md == sorted(criteria.max_dates) IN Slice(md, i, Len(md))

\* C10: with numSites > 0 and a non-empty champion, matches returns the
\* champion in date order when enough sites are open on all of it; otherwise
\* the longest dates[i:], 1 <= i <= length - 1, with enough sites; and None
\* when there is none. What it returns is always the champion's end piece.
C10_FrontTrimOnly ==
    SearchedWithSites =>
        LET n == Len(criteria.max_dates)
            k == criteria.num_sites
            good == {i \in 0..(n - 1) : EnoughCommonSites(Trimmed(i), k)}
        IN  /\ 0 \in good => ret = Dates(Trimmed(0))
            /\ (0 \notin good /\ good # {}) =>
                   ret = Dates(Trimmed(CHOOSE i \in good : \A j \in good : i <= j))
            /\ good = {} => ret = None
            /\ ret.kind = "dates" => \E i \in 0..(n - 1) : ret.v = Trimmed(i)

\* The champion's first two dates have enough sites in common, the whole
\* champion has not, and a shorter end piece is returned.
C10_Witness ==
    /\ SearchedWithSites
    /\ Len(criteria.max_dates) >= 4
    /\ ~ EnoughCommonSites(Trimmed(0), criteria.num_sites)
    /\ ~ EnoughCommonSites(Trimmed(1), criteria.num_sites)
    /\ EnoughCommonSites(SubSeq(Trimmed(0), 1, 2), criteria.num_sites)
    /\ ret = Dates(Trimmed(2))

(* ------------------- specification: the polling cycle ------------------- *)
\* One criterion instance is searched again and again, each time over the
\* payload fetched for that cycle.
CycleSites == {"001"}

CycleAvailabilities == [CycleSites -> SUBSET (1..CycleDays)]

\* The leaves put under a Stay.
StayLeaves ==
    {MinimumStayLength(nights, num_sites, NoDate, NoWeekDay) :
        nights \in 1..2, num_sites \in {0, 1}}
    \cup {MinimumStayLength(1, 0, 2, NoWeekDay), MinimumStayLength(1, 1, NoDate, 1)}
    \cup {MaximumStayLength(0), MaximumStayLength(1)}

\* The criteria followed: every leaf, every Stay of two of the leaves above,
\* and a Stay holding a Stay.
CycleCriteria ==
    MinimumStayLengths(CycleDays, 0..2, SearchNights, WeekDaysOf(CycleDays))
    \cup {MaximumStayLength(num_sites) : num_sites \in 0..2}
    \cup {Stay(<<a, b>>) : a \in StayLeaves, b \in StayLeaves}
    \cup {Stay(<<Stay(<<a, MaximumStayLength(0)>>), a>>) : a \in StayLeaves}

InitCycle ==
    /\ pc = "new"
    /\ criteria \in CycleCriteria
    /\ availability = [s \in CycleSites |-> {}]
    /\ dates = <<>>
    /\ num = 0
    /\ sets = <<>>
    /\ cycles = 0
    /\ ret = NoRet
    /\ args = NoArgs
    /\ outcomes = <<>>
    /\ held = NoHeld

Cycle ==
    /\ cycles < MaxCycles
    /\ search(CycleAvailabilities)
    /\ UNCHANGED held

NextCycle == Cycle

SpecCycle == InitCycle /\ [][NextCycle]_vars

\* A newly constructed criterion with the parameters of c.
RECURSIVE Fresh(_)
Fresh(c) ==
    IF c.kind = "MinimumStayLength"
    THEN MinimumStayLength(c.nights, c.num_sites, c.first_night, c.first_week_day)
    ELSE IF c.kind = "MaximumStayLength" THEN MaximumStayLength(c.num_sites)
    ELSE IF c.kind = "ExactDateSearch" THEN ExactDateSearch(c.desired_dates)
    ELSE IF c.kind = "ConsecutiveDateSearch"
    THEN ConsecutiveDateSearch(c.dates, c.num_sites)
    ELSE Stay([i \in DOMAIN c.criteria |-> Fresh(c.criteria[i])])

\* C3: whatever was searched before on the same criterion instance, a search
\* returns what a newly constructed criterion with the same parameters
\* returns for the same availability (the same ranges and set objects).
C3_SearchEqualsFreshSearch ==
    pc = "search" =>
        ret = matches(TestAll(Fresh(criteria), sets), index_by_date(availability))

\* A second or later search on the instance that found dates.
C3_Witness ==
    /\ pc = "search"
    /\ cycles >= 2
    /\ criteria.kind = "Stay"
    /\ ret.kind = "dates"
    /\ Len(ret.v) >= 2

(* ------------- specification: search with the date criteria ------------- *)
\* Days 1..DateDays are the calendar of the searches with ExactDateSearch and
\* ConsecutiveDateSearch.
DateDays == 3

\* The set objects set(dates) the date criteria can be built on.
TargetObjects == UNION {SetObjects(S) : S \in SUBSET (1..DateDays)}

DateCriteria ==
    {ExactDateSearch(t) : t \in TargetObjects}
    \cup {ConsecutiveDateSearch(t, k) : t \in TargetObjects, k \in SiteCounts}

InitSearchDates ==
    /\ pc = "new"
    /\ criteria \in DateCriteria
    /\ availability = [s \in Sites |-> {}]
    /\ dates = <<>>
    /\ num = 0
    /\ sets = <<>>
    /\ cycles = 0
    /\ ret = NoRet
    /\ args = NoArgs
    /\ outcomes = <<>>
    /\ held = NoHeld

\* One search(availability, criteria) of the test file on a new criterion.
SearchDates ==
    /\ pc = "new"
    /\ search(Availabilities(DateDays))
    /\ UNCHANGED held

NextSearchDates == SearchDates

SpecSearchDates == InitSearchDates /\ [][NextSearchDates]_vars

\* The dates some site is open on.
OpenDates == DOMAIN index_by_date(availability)

\* The dates ds lie in one run of consecutive open dates.
InOneRun(ds) ==
    \E r \in RunsOf(OpenDates) : SetOf(ds) \subseteq r[1]..r[2]

\* The sequence s holds exactly the dates of S, each once.
ExactlyOnce(s, S) == SetOf(s) = S /\ Len(s) = Cardinality(S)

\* C11: a search with ConsecutiveDateSearch(targetDates, numSites) returns
\* exactly the target dates when they all lie in one run of consecutive open
\* dates and numSites is 0 or at least numSites sites are open on every target
\* date; in every other case it returns the empty sequence.
C11_TargetDatesOrNothing ==
    (pc = "search" /\ criteria.kind = "ConsecutiveDateSearch") =>
        /\ ret.kind = "dates"
        /\ IF /\ InOneRun(criteria.dates)
              /\ \/ criteria.num_sites = 0
                 \/ EnoughCommonSites(criteria.dates, criteria.num_sites)
           THEN ExactlyOnce(ret.v, SetOf(criteria.dates))
           ELSE ret.v = <<>>

\* C12: a search with ExactDateSearch(targetDates) returns exactly the target
\* dates on which some site is open, each once, whatever the number of sites;
\* it returns the empty sequence when no target date is open.
C12_OpenTargetDates ==
    (pc = "search" /\ criteria.kind = "ExactDateSearch") =>
        /\ ret.kind = "dates"
        /\ ExactlyOnce(ret.v, SetOf(criteria.desired_dates) \cap OpenDates)

(* ------------------- specification: search with a Stay ------------------ *)
\* Days 1..StayDays are the calendar of the searches with a Stay.
StayDays == 3

\* The children: stays of one and two nights, the longest stay with each
\* threshold, and the date criteria the tests put in a Stay.
StayChildren ==
    {MinimumStayLength(nights, num_sites, NoDate, NoWeekDay) :
        nights \in 1..2, num_sites \in {0, 2}}
    \cup {MaximumStayLength(num_sites) : num_sites \in 0..2}
    \cup {ConsecutiveDateSearch(<<1, 2>>, 0), ExactDateSearch(<<2>>)}

\* Stay(*criteria) of two children, and of three.
Stays ==
    {Stay(<<a, b>>) : a \in StayChildren, b \in StayChildren}
    \cup {Stay(<<a, MaximumStayLength(0), a>>) : a \in StayChildren}

InitSearchStay ==
    /\ pc = "new"
    /\ criteria \in Stays
    /\ availability = [s \in Sites |-> {}]
    /\ dates = <<>>
    /\ num = 0
    /\ sets = <<>>
    /\ cycles = 0
    /\ ret = NoRet
    /\ args = NoArgs
    /\ outcomes = <<>>
    /\ held = NoHeld

\* One search(availability, criteria) on a new Stay.
SearchStay ==
    /\ pc = "new"
    /\ search(Availabilities(StayDays))
    /\ UNCHANGED held

NextSearchStay == SearchStay

SpecSearchStay == InitSearchStay /\ [][NextSearchStay]_vars

\* What each child's matches comes back with, in the order of the children.
ChildMatches ==
    [i \in DOMAIN criteria.criteria |->
        matches(criteria.criteria[i], index_by_date(availability))]

\* C13: Stay.test passes every call to every child, and Stay.matches returns
\* the children's matches one after the other in the order of the children,
\* nothing removed or reordered: as long as the sum of the children's results.
C13_StayConcatenatesChildren ==
    (pc = "search" /\ criteria.kind = "Stay") =>
        /\ \A i \in DOMAIN criteria.criteria :
               criteria.criteria[i] = TestAll(Fresh(criteria.criteria[i]), sets)
        /\ ret.kind = "dates"
        /\ ret.v = Flatten([i \in DOMAIN ChildMatches |-> ChildMatches[i].v])

(* --------------- specification: MinimumStayLength(...) ------------------ *)
\* Days 1..ConstructDays are the first nights given to the constructor.
ConstructDays == 2

InitConstruct ==
    /\ pc = "new"
    /\ args \in [nights : 0..MaxNights, num_sites : SiteCounts,
                 first_night : {NoDate} \cup (1..ConstructDays),
                 first_week_day : {NoWeekDay} \cup WeekDays]
    /\ criteria = NoCriteria
    /\ availability = NoAvailability
    /\ dates = <<>>
    /\ num = 0
    /\ sets = <<>>
    /\ cycles = 0
    /\ ret = NoRet
    /\ outcomes = <<>>
    /\ held = NoHeld

\* MinimumStayLength(nights, num_sites, first_night, first_week_day): the new
\* instance, or the ValueError the constructor raised.
Construct ==
    /\ pc = "new"
    /\ ret' = MinimumStayLength(args.nights, args.num_sites, args.first_night,
                                args.first_week_day)
    /\ criteria' = IF ret'.kind = "ValueError" THEN criteria ELSE ret'
    /\ pc' = "MinimumStayLength"
    /\ UNCHANGED <<availability, dates, num, sets, cycles, args, outcomes, held>>

NextConstruct == Construct

SpecConstruct == InitConstruct /\ [][NextConstruct]_vars

\* C17: constructing a MinimumStayLength with both a first night and a first
\* week day fails, for every week day Monday to Sunday and every date; with at
\* most one of the two it gives the instance with the arguments as given and
\* no matches.
C17_FirstNightExcludesWeekDay ==
    (pc = "MinimumStayLength") =>
        IF args.first_night # NoDate /\ args.first_week_day \in WeekDays
        THEN ret = ValueError /\ criteria = NoCriteria
        ELSE /\ criteria = ret
             /\ ret = [kind |-> "MinimumStayLength", nights |-> args.nights,
                       num_sites |-> args.num_sites,
                       first_night |-> args.first_night,
                       first_week_day |-> args.first_week_day,
                       matches |-> <<>>]

\* A first night together with Monday has been refused.
C17_Witness ==
    /\ pc = "MinimumStayLength"
    /\ args.first_night # NoDate
    /\ args.first_week_day = 0
    /\ ret = ValueError

(* ------------------------ parse_search_options -------------------------- *)
\* The tokens given to the parser: the literal max, the same word with a
\* capital, two week-day codes, a date and a word that is no date.
Tokens == {"max", "Max", "sa", "SU", "2022-08-03", "soon"}

\* date.upper() on the tokens above.
upper(date) ==
    CASE date = "max" -> "MAX"
      [] date = "Max" -> "MAX"
      [] date = "sa" -> "SA"
      [] date = "soon" -> "SOON"
      [] OTHER -> date

DAYS_OF_WEEK ==
    [code \in {"MO", "TU", "WE", "TH", "FR", "SA", "SU"} |->
        CASE code = "MO" -> 0
          [] code = "TU" -> 1
          [] code = "WE" -> 2
          [] code = "TH" -> 3
          [] code = "FR" -> 4
          [] code = "SA" -> 5
          [] code = "SU" -> 6]

\* parse(date).date() of dateutil on the tokens above: the day of the date,
\* or NoDate where dateutil raises its ParserError.
parse(date) == IF date = "2022-08-03" THEN 3 ELSE NoDate

\* The ParserError of dateutil, a ValueError, for the token it names. The
\* except clause names the ParserError of the module parser, another class,
\* so the error leaves parse_search_options as it is.
ParserError(date) == [kind |-> "ParserError", v |-> <<date>>]

\* Variant: max in any case.
IsMaxAnyCase(date) == upper(date) = "MAX"

\* date == "max"
IsMax(date) == date = "max"

\* Variant: the new criterion put before the others.
prepend(stays, c) == <<c>> \o stays

\* stays.append(c)
append(stays, c) == Append(stays, c)

\* Variant: a negative number of nights only.
NoNightsBelowZero(num_nights) == num_nights < 0

\* num_nights == 0
NoNights(num_nights) == num_nights = 0

\* for date in dates: ... ; if len(stays) > 0: return Stay(*stays)
RECURSIVE ParseLoop(_, _, _, _, _)
ParseLoop(tokens, i, stays, num_nights, num_sites) ==
    IF i > Len(tokens)
    THEN IF Len(stays) > 0 THEN Stay(stays) ELSE None
    ELSE LET date == tokens[i]
         IN  IF IsMax(date) THEN MaximumStayLength(num_sites)
             ELSE IF upper(date) \in DOMAIN DAYS_OF_WEEK
             THEN ParseLoop(tokens, i + 1,
                      append(stays, MinimumStayLength(num_nights, num_sites,
                                        NoDate, DAYS_OF_WEEK[upper(date)])),
                      num_nights, num_sites)
             ELSE IF parse(date) = NoDate THEN ParserError(date)
             ELSE ParseLoop(tokens, i + 1,
                      append(stays, MinimumStayLength(num_nights, num_sites,
                                        parse(date), NoWeekDay)),
                      num_nights, num_sites)

\* parse_search_options(dates, num_nights, num_sites): the criterion
\* returned, or the error raised.
parse_search_options(tokens, num_nights, num_sites) ==
    IF Len(tokens) = 0
    THEN IF NoNights(num_nights) THEN ValueError
         ELSE MinimumStayLength(num_nights, num_sites, NoDate, NoWeekDay)
    ELSE ParseLoop(tokens, 1, <<>>, num_nights, num_sites)

(* ------------- specification: parse_search_options(...) ----------------- *)
\* The token lists have up to MaxTokens tokens.
MaxTokens == 3

\* nights = 0..ParseNights in the configuration.
ParseNights == 2

RECURSIVE TokenLists(_)
TokenLists(n) ==
    IF n = 0 THEN {<<>>}
    ELSE TokenLists(n - 1)
         \cup {Append(l, t) : l \in {x \in TokenLists(n - 1) : Len(x) = n - 1},
                              t \in Tokens}

InitParse ==
    /\ pc = "new"
    /\ dates \in TokenLists(MaxTokens)
    /\ args \in [num_nights : 0..ParseNights, num_sites : {0, 1}]
    /\ criteria = NoCriteria
    /\ availability = NoAvailability
    /\ num = 0
    /\ sets = <<>>
    /\ cycles = 0
    /\ ret = NoRet
    /\ outcomes = <<>>
    /\ held = NoHeld

\* criteria = parse_search_options(dates, nights, sites)
Parse ==
    /\ pc = "new"
    /\ ret' = parse_search_options(dates, args.num_nights, args.num_sites)
    /\ criteria' = IF ret'.kind \in {"ValueError", "ParserError", "None"}
                   THEN criteria ELSE ret'
    /\ pc' = "parse_search_options"
    /\ UNCHANGED <<availability, dates, num, sets, cycles, args, outcomes, held>>

NextParse == Parse

SpecParse == InitParse /\ [][NextParse]_vars

\* The token is a week-day code or a date.
IsStayToken(date) ==
    upper(date) \in DOMAIN DAYS_OF_WEEK \/ parse(date) # NoDate

\* The MinimumStayLength of a week-day code or date token.
StayOfToken(date) ==
    IF upper(date) \in DOMAIN DAYS_OF_WEEK
    THEN [kind |-> "MinimumStayLength", nights |-> args.num_nights,
          num_sites |-> args.num_sites, first_night |-> NoDate,
          first_week_day |-> DAYS_OF_WEEK[upper(date)], matches |-> <<>>]
    ELSE [kind |-> "MinimumStayLength", nights |-> args.num_nights,
          num_sites |-> args.num_sites, first_night |-> parse(date),
          first_week_day |-> NoWeekDay, matches |-> <<>>]

\* The place of the first max among the tokens.
FirstMax == CHOOSE i \in DOMAIN dates :
                dates[i] = "max" /\ \A j \in 1..(i - 1) : dates[j] # "max"

Parsed == pc = "parse_search_options"

HasMax == \E i \in DOMAIN dates : dates[i] = "max"

\* C14 as stated: with a token max at any place, whatever the other tokens,
\* parse_search_options returns MaximumStayLength(num_sites = sites).
C14_MaxWinsAnywhere ==
    (Parsed /\ HasMax) => ret = MaximumStayLength(args.num_sites)

\* C14: with a token max, parse_search_options returns
\* MaximumStayLength(num_sites = sites) when every token before the first max
\* is a week-day code or a date, whatever the tokens after it; when a token
\* before it is neither, the parse fails with an error naming the first such
\* token.
C14_MaxWinsWhenReached ==
    (Parsed /\ HasMax) =>
        IF \A j \in 1..(FirstMax - 1) : IsStayToken(dates[j])
        THEN ret = MaximumStayLength(args.num_sites)
        ELSE /\ ret.kind = "ParserError"
             /\ \E j \in 1..(FirstMax - 1) :
                    /\ ret.v = <<dates[j]>>
                    /\ ~IsStayToken(dates[j])
                    /\ \A k \in 1..(j - 1) : IsStayToken(dates[k])

\* A max behind a week-day code and before a word that is no date has won.
C14_Witness ==
    /\ Parsed
    /\ Len(dates) = 3
    /\ IsStayToken(dates[1])
    /\ dates[2] = "max"
    /\ dates[3] = "soon"
    /\ ret.kind = "MaximumStayLength"

AllStayTokens == \A i \in DOMAIN dates : IsStayToken(dates[i])

\* C15 as stated: one week-day code or date token gives its MinimumStayLength
\* itself, more than one give a Stay of theirs in the order of the tokens.
C15_SingleTokenIsBare ==
    (Parsed /\ AllStayTokens /\ Len(dates) > 0) =>
        IF Len(dates) = 1 THEN ret = StayOfToken(dates[1])
        ELSE ret = Stay([i \in DOMAIN dates |-> StayOfToken(dates[i])])

\* C15: one or more week-day code or date tokens (and no max) give a Stay of
\* the tokens' MinimumStayLength criteria in the order of the tokens; a single
\* token gives a Stay of one child.
C15_StayOfTokensInOrder ==
    (Parsed /\ AllStayTokens /\ Len(dates) > 0) =>
        ret = Stay([i \in DOMAIN dates |-> StayOfToken(dates[i])])

\* A single week-day code has given a Stay of one child.
C15_Witness ==
    /\ Parsed
    /\ dates = <<"sa">>
    /\ ret.kind = "Stay"
    /\ Len(ret.criteria) = 1

\* C16: with no tokens, nights = 0 is an error and no criterion is made;
\* nights > 0 gives one MinimumStayLength(nights, num_sites = sites) with no
\* first night and no first week day.
C16_NoTokens ==
    (Parsed /\ Len(dates) = 0) =>
        IF args.num_nights = 0
        THEN ret = ValueError /\ criteria = NoCriteria
        ELSE /\ criteria = ret
             /\ ret = [kind |-> "MinimumStayLength", nights |-> args.num_nights,
                       num_sites |-> args.num_sites, first_night |-> NoDate,
                       first_week_day |-> NoWeekDay, matches |-> <<>>]

\* No tokens and no nights have been refused.
C16_Witness ==
    /\ Parsed
    /\ Len(dates) = 0
    /\ args.num_nights = 0
    /\ ret = ValueError

(* ---------------- specification: Availability.search -------------------- *)
\* Days 1..AvailDays are the calendar the provider answers with.
AvailDays == 3

\* len(dates) > 0 on what search came back with: len(None) is a TypeError,
\* an exception of search goes on up.
len_gt_0(r) ==
    IF r.kind = "dates" THEN [kind |-> "bool", v |-> Len(r.v) > 0]
    ELSE IF r.kind = "None" THEN TypeError
    ELSE r

\* The criteria given to Availability.search: every variant.
AvailCriteria ==
    {MinimumStayLength(nights, num_sites, NoDate, NoWeekDay) :
        nights \in 1..2, num_sites \in SiteCounts}
    \cup {MinimumStayLength(1, 1, 2, NoWeekDay), MinimumStayLength(1, 1, NoDate, 1)}
    \cup {MaximumStayLength(num_sites) : num_sites \in SiteCounts}
    \cup {Stay(<<MinimumStayLength(1, num_sites, NoDate, 0),
                 MinimumStayLength(2, num_sites, NoDate, NoWeekDay)>>) :
             num_sites \in SiteCounts}

InitAvailability ==
    /\ pc = "new"
    /\ criteria \in AvailCriteria
    /\ availability = NoAvailability
    /\ dates = <<>>
    /\ num = 0
    /\ sets = <<>>
    /\ cycles = 0
    /\ ret = NoRet
    /\ args = NoArgs
    /\ outcomes = <<>>
    /\ held = NoHeld

\* Availability.search(campground, criteria): the provider's answer av is
\* searched and the call returns len(dates) > 0.
Availability_search ==
    /\ pc = "new"
    /\ \E av \in Availabilities(AvailDays) :
        LET available_dates == index_by_date(av)
            ds == SortedKeys(available_dates)
            spans == consecutive(ds)
        IN  \E objs \in SpanSets(ds, spans) :
                /\ availability' = av
                /\ dates' = ds
                /\ sets' = objs
                /\ criteria' = TestAll(reset(criteria), objs)
                /\ ret' = len_gt_0(matches(criteria', available_dates))
                /\ cycles' = cycles + 1
                /\ pc' = "Availability.search"
                /\ UNCHANGED <<num, args, outcomes, held>>

NextAvailability == Availability_search

SpecAvailability == InitAvailability /\ [][NextAvailability]_vars

\* C18: Availability.search returns true exactly when the criterion's match
\* sequence for the fetched availability is not empty and false otherwise,
\* for every criterion and every availability; it never ends in an error.
C18_SearchReturnsBoolean ==
    (pc = "Availability.search") =>
        /\ ret.kind = "bool"
        /\ ret.v = (Len(matches(criteria, index_by_date(availability)).v) > 0)

(* ---------------- specification: email_notification --------------------- *)
num_retries == 5

\* The exceptions of a send attempt the except clause names (three of the
\* classes it lists), and one it does not name.
SMTPErrors == {"SMTPAuthenticationError", "SMTPRecipientsRefused", "SMTPException"}

\* How a send attempt can end: no exception, an SMTP error, or an error of
\* the connection that is no SMTP error.
AttemptOutcomes == {"sent"} \cup SMTPErrors \cup {"OSError"}

OSError == [kind |-> "OSError", v |-> <<>>]

\* The booleans email_notification returns.
True == [kind |-> "True", v |-> <<>>]
False == [kind |-> "False", v |-> <<>>]

\* Variant: one attempt more.
InRangeInclusive(attempts) == attempts <= num_retries

\* for attempts in range(num_retries): another attempt is due.
InRange(attempts) == attempts < num_retries

InitEmail ==
    /\ pc = "for"
    /\ outcomes = <<>>
    /\ ret = NoRet
    /\ criteria = NoCriteria
    /\ availability = NoAvailability
    /\ dates = <<>>
    /\ num = 0
    /\ sets = <<>>
    /\ cycles = 0
    /\ args = NoArgs
    /\ held = NoHeld

\* One pass of the loop body: the message is sent and the loop is left by
\* break, or an SMTP error is caught and logged and the loop goes on, or
\* another exception leaves email_notification.
Attempt ==
    /\ pc = "for"
    /\ InRange(Len(outcomes))
    /\ \E o \in AttemptOutcomes :
        /\ outcomes' = Append(outcomes, o)
        /\ pc' = IF o = "sent" THEN "break"
                 ELSE IF o \in SMTPErrors THEN "for"
                 ELSE "raised"
        /\ ret' = IF o \in SMTPErrors \cup {"sent"} THEN ret ELSE OSError
    /\ UNCHANGED <<availability, dates, num, criteria, sets, cycles, args, held>>

\* The else clause of the loop: every attempt failed, return False.
ReturnFalse ==
    /\ pc = "for"
    /\ ~InRange(Len(outcomes))
    /\ ret' = False
    /\ pc' = "returned"
    /\ UNCHANGED <<availability, dates, num, criteria, sets, cycles, args,
                   outcomes, held>>

\* After break: return True.
ReturnTrue ==
    /\ pc = "break"
    /\ ret' = True
    /\ pc' = "returned"
    /\ UNCHANGED <<availability, dates, num, criteria, sets, cycles, args,
                   outcomes, held>>

NextEmail == Attempt \/ ReturnFalse \/ ReturnTrue

SpecEmail == InitEmail /\ [][NextEmail]_vars

\* The statements of email_notification run one after the other and every
\* attempt ends (the connection has a timeout), so a step that can be taken
\* is taken.
SpecEmailFair == SpecEmail /\ WF_vars(NextEmail)

\* The attempts made so far all ended in an SMTP error.
AllSMTPErrors(os) == \A i \in DOMAIN os : os[i] \in SMTPErrors

EmailOver == pc \in {"returned", "raised"}

ReturnedTrue == pc = "returned" /\ ret = True

ReturnedFalse == pc = "returned" /\ ret = False

\* At most 5 attempts, none after one that succeeded; True is returned only
\* after an attempt that succeeded, False exactly after 5 SMTP errors.
EmailAttemptsRight ==
    /\ Len(outcomes) <= 5
    /\ \A i \in DOMAIN outcomes : outcomes[i] = "sent" => i = Len(outcomes)
    /\ ReturnedTrue =>
           outcomes # <<>> /\ outcomes[Len(outcomes)] = "sent"
    /\ pc = "returned" => ret \in {True, False}
    /\ ReturnedFalse <=>
           (pc = "returned" /\ Len(outcomes) = 5 /\ AllSMTPErrors(outcomes))

IsAccumulator(c, r) ==
    /\ c.kind = "MaximumStayLength"
    /\ r.kind = "dates"
    /\ (c.num_sites = 0 \/ Len(c.max_dates) = 0)

\* What the object the caller holds is after the criterion's next reset():
\* self._max_dates.clear() empties the accumulator in place; test then binds
\* self._max_dates to a new object and leaves the old one alone.
AfterReset(c, r) == IF IsAccumulator(c, r) THEN Dates(<<>>) ELSE r

HoldCriteria ==
    {MaximumStayLength(num_sites) : num_sites \in {0, 1}}
    \cup {MinimumStayLength(nights, num_sites, NoDate, NoWeekDay) :
             nights \in 1..2, num_sites \in {0, 1}}
    \cup {Stay(<<MaximumStayLength(0), MinimumStayLength(1, 0, NoDate, NoWeekDay)>>)}

InitHold ==
    /\ pc = "new"
    /\ criteria \in HoldCriteria
    /\ availability = [s \in CycleSites |-> {}]
    /\ dates = <<>>
    /\ num = 0
    /\ sets = <<>>
    /\ cycles = 0
    /\ ret = NoRet
    /\ args = NoArgs
    /\ outcomes = <<>>
    /\ held = NoHeld

\* The caller keeps the result of the search before and searches again on
\* the same criterion instance.
Hold ==
    /\ cycles < MaxCycles
    /\ search(CycleAvailabilities)
    /\ held' = [returned |-> ret, now |-> AfterReset(criteria, ret)]

NextHold == Hold

SpecHold == InitHold /\ [][NextHold]_vars

\* C20: a match sequence returned by search keeps its contents after a later
\* reset() or search() on the same criterion instance: the result the caller
\* holds is what it was when it was returned.
C20_HeldResultUnchanged ==
    (pc = "search") => held.now = held.returned

(* ------- specification: the look-ahead of get_availability -------------- *)
\* The look-ahead starts in a month of the years 2024 (a leap year) up to
\* 2023 + NumYears.
NumYears == 2

Years == 2024..(2023 + NumYears)

max_look_ahead_months == 3

\* A date of src/ridb_interface.py is <<year, month, day>>; the keys of
\* quantities are such dates at midnight, which strptime reads back as they
\* are.
IsLeap(y) == (y % 4 = 0 /\ y % 100 # 0) \/ y % 400 = 0

DaysInMonth(y, m) ==
    IF m = 2 THEN (IF IsLeap(y) THEN 29 ELSE 28)
    ELSE IF m \in {4, 6, 9, 11} THEN 30
    ELSE 31

\* date + datetime.timedelta(days=1)
NextDay(date) ==
    IF date[3] < DaysInMonth(date[1], date[2])
    THEN <<date[1], date[2], date[3] + 1>>
    ELSE IF date[2] < 12 THEN <<date[1], date[2] + 1, 1>>
    ELSE <<date[1] + 1, 1, 1>>

\* A date returned, as against None.
Date(d) == [kind |-> "date", v |-> d]

\* extract_next_month(quantities): the day after the last key when its month
\* number is greater than the month number of the last key, None otherwise.
extract_next_month(quantities) ==
    LET date == quantities[Len(quantities)]
        next_date == NextDay(date)
    IN  IF date[2] < next_date[2] THEN Date(next_date) ELSE None

\* The quantities of a month's response: the days 1..k of the month asked
\* for, or none.
Quantities(start_date) ==
    {[i \in 1..k |-> <<start_date[1], start_date[2], i>>] :
        k \in 0..DaysInMonth(start_date[1], start_date[2])}

InitLookAhead ==
    /\ pc = "get_availability"
    /\ args \in {[start_date |-> Date(<<y, m, 1>>)] : y \in Years, m \in 1..12}
    /\ cycles = 0
    /\ dates = <<>>
    /\ ret = NoRet
    /\ criteria = NoCriteria
    /\ availability = NoAvailability
    /\ num = 0
    /\ sets = <<>>
    /\ outcomes = <<>>
    /\ held = NoHeld

\* One pass of the while loop of get_availability: the month of start_date is
\* requested and, the quantities not being empty, start_date becomes what
\* extract_next_month makes of them.
RequestMonth ==
    /\ pc \in {"get_availability", "extract_next_month", "while"}
    /\ args.start_date.kind = "date"
    /\ cycles < max_look_ahead_months
    /\ \E quantities \in Quantities(args.start_date.v) :
        /\ dates' = quantities
        /\ cycles' = cycles + 1
        /\ IF Len(quantities) > 0
           THEN /\ ret' = extract_next_month(quantities)
                /\ args' = [args EXCEPT !.start_date = ret']
                /\ pc' = "extract_next_month"
           ELSE /\ UNCHANGED <<ret, args>>
                /\ pc' = "while"
    /\ UNCHANGED <<availability, num, criteria, sets, outcomes, held>>

NextLookAhead == RequestMonth

SpecLookAhead == InitLookAhead /\ [][NextLookAhead]_vars

\* The last date of the quantities list.
LastDate == dates[Len(dates)]

\* The first day of the month after the month of d, January of the next year
\* after December.
FirstOfFollowingMonth(d) ==
    IF d[2] = 12 THEN <<d[1] + 1, 1, 1>> ELSE <<d[1], d[2] + 1, 1>>

\* C21: extract_next_month returns the first day of the following month when
\* the last date of the quantities list is the last day of its month, for
\* every month of the year, December included, and None when it is not; so
\* the look-ahead of get_availability goes on with the following month after
\* every month listed in full.
C21_NextMonthAfterFullMonth ==
    (pc = "extract_next_month") =>
        /\ ret = IF LastDate[3] = DaysInMonth(LastDate[1], LastDate[2])
                 THEN Date(FirstOfFollowingMonth(LastDate))
                 ELSE None
        /\ args.start_date = ret

====
